---- MODULE Spec2Model ----
(***************************************************************************)
(* HummiGuard AI: the client-side monitoring loop (the HummiGuardAI React  *)
(* component listed in src/DEPLOYMENT.md from line 192 on) and its         *)
(* contract with the analysis endpoint (src/app/api/analyze/route.ts).     *)
(*                                                                         *)
(* One step of the model is one event of the browser's event loop: a user  *)
(* event, a timer callback, the continuation of an awaited promise, or the *)
(* run of the trigger effect that React schedules after a commit.  State   *)
(* updates of one event are batched and committed together.  Wall-clock    *)
(* strings (timestamp, time) are display-only and are not modelled.        *)
(***************************************************************************)
EXTENDS Integers, Sequences, FiniteSets, TLC

VARIABLES
    isRunning,          \* useState(false)
    isAnalyzing,        \* useState(false)
    nectarLevel,        \* useState<number|null>(null): <<>> is null, <<l>> is l
    alertActive,        \* useState(false)
    alertMuted,         \* useState(false)
    threshold,          \* useState(25)
    cameraError,        \* useState<string|null>(null): <<>> is null
    lastAnalysis,       \* useState<AnalysisResult|null>(null): <<>> is null
    analysisInterval,   \* useState(30)
    countdown,          \* useState(0)
    history,            \* useState<HistoryEntry[]>([])
    requests,           \* fetches in flight, each with the closure of the render that issued it
    triggerDue,         \* the trigger effect is scheduled to run for the last commit
    outcome,            \* what the environment delivered to the last completed cycle
    validLeft,          \* accepted readings the vision service will still return
    acquiring,          \* startCamera calls awaiting getUserMedia
    playing,            \* startCamera calls awaiting video.play()
    srcObject,          \* videoRef.current.srcObject: "none", "live" or "stopped"
    leaked,             \* some live stream is no longer attached to the video element
    scanFrom,           \* <<c>> right after Scan Now was pressed at countdown c, else <<>>
    alertTimer,         \* the alert loop's interval: <<>> is none, <<m>> calls the playAlertSound that closed over alertMuted = m
    cue,                \* the last event played the alert sound
    req,                \* the request the endpoint is handling
    resp                \* the endpoint's response to req

vars == <<isRunning, isAnalyzing, nectarLevel, alertActive, alertMuted, threshold,
          cameraError, lastAnalysis, analysisInterval, countdown, history,
          requests, triggerDue, outcome, validLeft, acquiring, playing,
          srcObject, leaked, scanFrom, alertTimer, cue, req, resp>>

\* The state of the component.
clientVars == <<isRunning, isAnalyzing, nectarLevel, alertActive, alertMuted,
                threshold, cameraError, lastAnalysis, analysisInterval, countdown,
                history, requests, triggerDue, outcome, validLeft, acquiring,
                playing, srcObject, leaked, scanFrom, alertTimer, cue>>

(***************************************************************************)
(* Bounds of the model.                                                    *)
(***************************************************************************)
\* The user picks among the first NumIntervals interval buttons.
NumIntervals == 1
\* Accepted readings the vision service returns in one run of the model.
MaxValid == 2
\* startCamera calls that may be pending at once.
MaxPending == 1
\* Longest reply of the vision model, in tokens.
MaxTokens == 3

(***************************************************************************)
(* Program constants.                                                      *)
(***************************************************************************)
DefaultThreshold == 25
DefaultInterval == 30
StartDelay == 5
KeepLast == 19

\* The interval buttons, in the order they are rendered.
Intervals == <<10, 30, 60, 120>>
IntervalChoices == {Intervals[i] : i \in 1..NumIntervals}
\* Positions of the threshold slider (min 10, max 50) the user moves it to.
Thresholds == {15, 25}

(***************************************************************************)
(* Analysis results and what the environment can deliver to a cycle.       *)
(***************************************************************************)
Result(l, c, d, v) == [level |-> l, confidence |-> c, description |-> d, feeder_visible |-> v]

NoResult == Result(0, "", <<>>, FALSE)

\* Bodies of 200 responses: accepted readings and misses.
ValidResults ==
    { Result(20, "high", <<"Feeder about one fifth full">>, TRUE),
      Result(30, "medium", <<"Feeder about one third full">>, TRUE) }

InvalidResults ==
    { Result(-1, "low", <<"No feeder visible">>, FALSE),
      Result(-1, "low", <<"Could not parse AI response">>, TRUE),
      Result(30, "medium", <<"Container out of frame">>, FALSE) }

Http(s, r, e) == [kind |-> "http", status |-> s, result |-> r, error |-> e]
Reject(m) == [kind |-> "reject", status |-> 0, result |-> NoResult, error |-> m]
CaptureFailed == [kind |-> "capture", status |-> 0, result |-> NoResult, error |-> <<>>]
NoOutcome == [kind |-> "none", status |-> 0, result |-> NoResult, error |-> <<>>]

\* Non-200 responses (error is the body's error field, <<>> when it has none)
\* and a rejected fetch.
FailureOutcomes ==
    { Http(500, NoResult, <<"API key not configured">>),
      Http(502, NoResult, <<>>),
      Reject(<<"Failed to fetch">>) }

OkOutcomes(rs) == { Http(200, r, <<>>) : r \in rs }

\* Variant: the test on the level is dropped.
AcceptedVisibleOnly(r) == r.feeder_visible

Accepted(r) == r.feeder_visible /\ r.level >= 0

(***************************************************************************)
(* The analysis endpoint: POST of route.ts as a function of the request    *)
(* body, the configured credential and the answer of the vision service.   *)
(* A JSON object is a record of the members the programs read, <<>> for an *)
(* absent member and <<v>> for value v.                                    *)
(***************************************************************************)
Obj(l, c, d, v, e) ==
    [level |-> l, confidence |-> c, description |-> d, feeder_visible |-> v, error |-> e]

EmptyObj == Obj(<<>>, <<>>, <<>>, <<>>, <<>>)

\* { error: m }
ErrorBody(m) == Obj(<<>>, <<>>, <<>>, <<>>, <<m>>)

\* The result of the inner catch block.
Fallback == Obj(<<-1>>, <<"low">>, <<"Could not parse AI response">>, <<FALSE>>, <<>>)

\* The text of a model reply is a sequence of tokens: braces, prose, and the
\* member lists (text between the braces of an object without nested braces).
Prose == "Here is my analysis:"
ReadingMembers ==
    "\"level\":45,\"confidence\":\"high\",\"description\":\"Half full\",\"feeder_visible\":true"
ErrorMembers == "\"error\":\"Cannot assess this image\""
OverfullMembers ==
    "\"level\":150,\"confidence\":\"certain\",\"description\":\"Overflowing\",\"feeder_visible\":true"
MemberLists == {ReadingMembers, ErrorMembers, OverfullMembers}
Tokens == {"{", "}", Prose} \cup MemberLists

\* Replies that hold an object followed by a second object or by prose with braces.
LongTexts ==
    { <<"{", ReadingMembers, "}", Prose, "{", ErrorMembers, "}">>,
      <<"{", ReadingMembers, "}", "{", ReadingMembers, "}">>,
      <<Prose, "{", ReadingMembers, "}", Prose, "{", Prose, "}">>,
      <<Prose, "{", ReadingMembers, "}", Prose>> }

Texts == UNION { [1..n -> Tokens] : n \in 0..MaxTokens } \cup LongTexts

\* The object that JSON.parse builds from member list c.
Members(c) ==
    IF c = ReadingMembers
    THEN Obj(<<45>>, <<"high">>, <<"Half full">>, <<TRUE>>, <<>>)
    ELSE IF c = OverfullMembers
    THEN Obj(<<150>>, <<"certain">>, <<"Overflowing">>, <<TRUE>>, <<>>)
    ELSE ErrorBody("Cannot assess this image")

Min(S) == CHOOSE x \in S : \A y \in S : x <= y
Max(S) == CHOOSE x \in S : \A y \in S : x >= y

Opens(t) == {i \in 1..Len(t) : t[i] = "{"}
Closes(t) == {i \in 1..Len(t) : t[i] = "}"}

\* textContent.match(/\{[\s\S]*\}/): <<>> for null, else <<m>> where m runs
\* from the leftmost "{" to the last "}" of the text.
JsonMatch(t) ==
    IF Opens(t) = {} \/ Closes(t) = {} THEN <<>>
    ELSE IF Min(Opens(t)) > Max(Closes(t)) THEN <<>>
    ELSE <<SubSeq(t, Min(Opens(t)), Max(Closes(t)))>>

\* JSON.parse(s): <<>> when it throws, else <<object>>.
JsonParse(s) ==
    IF s = <<"{", "}">> THEN <<EmptyObj>>
    ELSE IF Len(s) = 3 /\ s[1] = "{" /\ s[2] \in MemberLists /\ s[3] = "}"
         THEN <<Members(s[2])>>
         ELSE <<>>

\* The inner try/catch: the parsed match, or the fallback.
ExtractResult(t) ==
    IF JsonMatch(t) = <<>> THEN Fallback
    ELSE IF JsonParse(JsonMatch(t)[1]) = <<>> THEN Fallback
    ELSE JsonParse(JsonMatch(t)[1])[1]

\* What the fetch of the vision service yields: it rejects with an Error of
\* the given message, or it resolves with a status and a body that is JSON
\* or not, with error.message (<<>> when absent) and the reply's text.
Upstream(k, s, j, m, t) == [kind |-> k, status |-> s, json |-> j, message |-> m, text |-> t]

NoUpstream == Upstream("none", 0, FALSE, <<>>, <<>>)

UpstreamAnswers ==
    { Upstream("reject", 0, FALSE, <<"fetch failed">>, <<>>) }
      \cup { Upstream("response", st, TRUE, m, <<>>) :
                st \in {401, 529}, m \in {<<>>, <<"Overloaded">>} }
      \cup { Upstream("response", st, FALSE, <<>>, <<>>) : st \in {200, 502} }
      \cup { Upstream("response", 200, TRUE, <<>>, t) : t \in Texts }

\* body: the request body holds an image, holds none, or is not JSON.
Request(b, k, u) == [body |-> b, apiKey |-> k, upstream |-> u]

NoRequest == Request("none", FALSE, NoUpstream)

Requests ==
    { Request(b, k, u) : b \in {"image", "noimage", "malformed"},
                         k \in BOOLEAN, u \in UpstreamAnswers }

\* NextResponse.json(body, { status })
JsonResponse(st, b) == [status |-> st, body |-> b]

NoResponse == JsonResponse(0, EmptyObj)

\* response.ok
Ok(st) == st \in 200..299

\* The result handed to NextResponse.json on the success path.
ReturnedResult(t) == ExtractResult(t)

\* The message of the SyntaxError that a json() call throws for a non-JSON body.
NotJson == "Unexpected token < in JSON at position 0"

POST(r) ==
    IF r.body = "malformed" THEN JsonResponse(500, ErrorBody(NotJson))
    ELSE IF r.body = "noimage" THEN JsonResponse(400, ErrorBody("No image provided"))
    ELSE IF ~r.apiKey THEN JsonResponse(500, ErrorBody("API key not configured"))
    ELSE IF r.upstream.kind = "reject"
         THEN JsonResponse(500, ErrorBody(r.upstream.message[1]))
    ELSE IF ~r.upstream.json THEN JsonResponse(500, ErrorBody(NotJson))
    ELSE IF ~Ok(r.upstream.status)
         THEN JsonResponse(r.upstream.status,
                           ErrorBody(IF r.upstream.message # <<>>
                                     THEN r.upstream.message[1]
                                     ELSE "API request failed"))
    ELSE JsonResponse(200, ReturnedResult(r.upstream.text))

(***************************************************************************)
(* The state after the component is constructed.                           *)
(***************************************************************************)
ClientInit ==
    /\ isRunning = FALSE
    /\ isAnalyzing = FALSE
    /\ nectarLevel = <<>>
    /\ alertActive = FALSE
    /\ alertMuted = FALSE
    /\ threshold = DefaultThreshold
    /\ cameraError = <<>>
    /\ lastAnalysis = <<>>
    /\ analysisInterval = DefaultInterval
    /\ countdown = 0
    /\ history = <<>>
    /\ requests = <<>>
    /\ triggerDue = FALSE
    /\ outcome = NoOutcome
    /\ validLeft = MaxValid
    /\ acquiring = 0
    /\ playing = 0
    /\ srcObject = "none"
    /\ leaked = FALSE
    /\ scanFrom = <<>>
    /\ alertTimer = <<>>
    /\ cue = FALSE

\* The endpoint is not handling a request.
EndpointIdle == req = NoRequest /\ resp = NoResponse

Init == ClientInit /\ EndpointIdle

(***************************************************************************)
(* Effects.  The trigger effect has the dependency list                    *)
(* [countdown, isRunning, isAnalyzing]: React runs it after a commit that  *)
(* changed one of them, before any later event is handled.                 *)
(***************************************************************************)
Deps == <<countdown, isRunning, isAnalyzing>>

\* Variant: the effect does not test isRunning.
TriggerCondNoRunning == countdown = 0 /\ ~isAnalyzing

TriggerCond == isRunning /\ countdown = 0 /\ ~isAnalyzing

\* Variant: countdown is missing from the dependency list.
EffectsAfterNoCountdownDep ==
    triggerDue' = (TriggerCond' /\ <<isRunning', isAnalyzing'>> # <<isRunning, isAnalyzing>>)

\* Last conjunct of every action: whether the commit schedules the effect body.
EffectsAfter == triggerDue' = (TriggerCond' /\ Deps' # Deps)

\* No effect is waiting to run: the next event can be handled.
Idle == ~triggerDue

(***************************************************************************)
(* The alert sound loop effect, with the dependency list                   *)
(* [alertActive, alertMuted, playAlertSound]; playAlertSound is re-created *)
(* exactly when alertMuted changes.  After a commit that changed one of    *)
(* them the cleanup clears the interval, then the body returns early or    *)
(* sets a new interval and calls playAlertSound once.  The audio context   *)
(* is taken to be available.                                               *)
(***************************************************************************)
\* Variant: alertMuted and playAlertSound are missing from the dependency list.
AlertDepsNoMuted == <<alertActive>>

AlertDeps == <<alertActive, alertMuted>>

\* The body goes past its early return.
AlertCond == alertActive /\ ~alertMuted

\* playAlertSound of a render in which alertMuted = m: it returns at once when m.
PlaysSound(m) == ~m

\* Conjunct of every event of the component but the interval's callback.
AlertSoundLoop ==
    /\ alertTimer' = IF AlertDeps' # AlertDeps
                     THEN (IF AlertCond' THEN <<alertMuted'>> ELSE <<>>)
                     ELSE alertTimer
    /\ cue' = (AlertDeps' # AlertDeps /\ AlertCond' /\ PlaysSound(alertMuted'))

\* The interval's callback, every 2000 ms while the interval is set.
AlertTick ==
    /\ Idle
    /\ alertTimer # <<>>
    /\ cue' = PlaysSound(alertTimer[1])
    /\ UNCHANGED <<isRunning, isAnalyzing, nectarLevel, alertActive, alertMuted,
                   threshold, cameraError, lastAnalysis, analysisInterval,
                   countdown, history, requests, outcome, validLeft, acquiring,
                   playing, srcObject, leaked, alertTimer>>
    /\ scanFrom' = <<>>
    /\ UNCHANGED <<req, resp>>
    /\ EffectsAfter

\* Variant: the catch block records nothing.
CameraDeniedNotRecorded == <<>>

CameraDenied == <<"Camera access denied. Please allow camera permissions and refresh.">>

(***************************************************************************)
(* startCamera, one action per await.                                      *)
(***************************************************************************)
StartCamera ==
    /\ Idle
    /\ ~isRunning
    /\ acquiring + playing < MaxPending
    /\ acquiring' = acquiring + 1
    /\ UNCHANGED <<isRunning, isAnalyzing, nectarLevel, alertActive, alertMuted,
                   threshold, cameraError, lastAnalysis, analysisInterval,
                   countdown, history, requests, outcome, validLeft, playing,
                   srcObject, leaked>>
    /\ scanFrom' = <<>>
    /\ AlertSoundLoop
    /\ UNCHANGED <<req, resp>>
    /\ EffectsAfter

GetUserMediaOk ==
    /\ Idle
    /\ acquiring > 0
    /\ srcObject' = "live"
    /\ leaked' = (leaked \/ srcObject = "live")
    /\ acquiring' = acquiring - 1
    /\ playing' = playing + 1
    /\ UNCHANGED <<isRunning, isAnalyzing, nectarLevel, alertActive, alertMuted,
                   threshold, cameraError, lastAnalysis, analysisInterval,
                   countdown, history, requests, outcome, validLeft>>
    /\ scanFrom' = <<>>
    /\ AlertSoundLoop
    /\ UNCHANGED <<req, resp>>
    /\ EffectsAfter

GetUserMediaFail ==
    /\ Idle
    /\ acquiring > 0
    /\ acquiring' = acquiring - 1
    /\ cameraError' = CameraDenied
    /\ UNCHANGED <<isRunning, isAnalyzing, nectarLevel, alertActive, alertMuted,
                   threshold, lastAnalysis, analysisInterval, countdown, history,
                   requests, outcome, validLeft, playing, srcObject, leaked>>
    /\ scanFrom' = <<>>
    /\ AlertSoundLoop
    /\ UNCHANGED <<req, resp>>
    /\ EffectsAfter

PlayOk ==
    /\ Idle
    /\ playing > 0
    /\ playing' = playing - 1
    /\ isRunning' = TRUE
    /\ cameraError' = <<>>
    /\ countdown' = StartDelay
    /\ UNCHANGED <<isAnalyzing, nectarLevel, alertActive, alertMuted, threshold,
                   lastAnalysis, analysisInterval, history, requests, outcome,
                   validLeft, acquiring, srcObject, leaked>>
    /\ scanFrom' = <<>>
    /\ AlertSoundLoop
    /\ UNCHANGED <<req, resp>>
    /\ EffectsAfter

PlayFail ==
    /\ Idle
    /\ playing > 0
    /\ playing' = playing - 1
    /\ cameraError' = CameraDenied
    /\ UNCHANGED <<isRunning, isAnalyzing, nectarLevel, alertActive, alertMuted,
                   threshold, lastAnalysis, analysisInterval, countdown, history,
                   requests, outcome, validLeft, acquiring, srcObject, leaked>>
    /\ scanFrom' = <<>>
    /\ AlertSoundLoop
    /\ UNCHANGED <<req, resp>>
    /\ EffectsAfter

(***************************************************************************)
(* stopCamera: the Stop button is rendered only while isRunning.           *)
(***************************************************************************)
\* Variant: stopCamera leaves the countdown as it is.
StopCountdownKept == countdown

StopCountdown == 0

\* Variant: stopCamera also unmutes.
MutedAfterStopCleared == FALSE

\* alertMuted after stopCamera: setAlertMuted is not called.
MutedAfterStop == alertMuted

StopCamera ==
    /\ Idle
    /\ isRunning
    /\ srcObject' = IF srcObject = "none" THEN "none" ELSE "stopped"
    /\ isRunning' = FALSE
    /\ alertActive' = FALSE
    /\ countdown' = StopCountdown
    /\ alertMuted' = MutedAfterStop
    /\ UNCHANGED <<isAnalyzing, nectarLevel, threshold, cameraError,
                   lastAnalysis, analysisInterval, history, requests, outcome,
                   validLeft, acquiring, playing, leaked>>
    /\ scanFrom' = <<>>
    /\ AlertSoundLoop
    /\ UNCHANGED <<req, resp>>
    /\ EffectsAfter

(***************************************************************************)
(* The user's other controls.                                              *)
(***************************************************************************)
\* Scan Now: rendered while isRunning, disabled while isAnalyzing.
ScanNow ==
    /\ Idle
    /\ isRunning
    /\ ~isAnalyzing
    /\ countdown' = 0
    /\ UNCHANGED <<isRunning, isAnalyzing, nectarLevel, alertActive, alertMuted,
                   threshold, cameraError, lastAnalysis, analysisInterval, history,
                   requests, outcome, validLeft, acquiring, playing, srcObject,
                   leaked>>
    /\ scanFrom' = <<countdown>>
    /\ AlertSoundLoop
    /\ UNCHANGED <<req, resp>>
    /\ EffectsAfter

SetAnalysisInterval(sec) ==
    /\ Idle
    /\ sec # analysisInterval
    /\ analysisInterval' = sec
    /\ UNCHANGED <<isRunning, isAnalyzing, nectarLevel, alertActive, alertMuted,
                   threshold, cameraError, lastAnalysis, countdown, history,
                   requests, outcome, validLeft, acquiring, playing, srcObject,
                   leaked>>
    /\ scanFrom' = <<>>
    /\ AlertSoundLoop
    /\ UNCHANGED <<req, resp>>
    /\ EffectsAfter

SetThreshold(t) ==
    /\ Idle
    /\ t # threshold
    /\ threshold' = t
    /\ UNCHANGED <<isRunning, isAnalyzing, nectarLevel, alertActive, alertMuted,
                   cameraError, lastAnalysis, analysisInterval, countdown, history,
                   requests, outcome, validLeft, acquiring, playing, srcObject,
                   leaked>>
    /\ scanFrom' = <<>>
    /\ AlertSoundLoop
    /\ UNCHANGED <<req, resp>>
    /\ EffectsAfter

\* The mute button sits in the alert banner, rendered while alertActive.
ToggleMute ==
    /\ Idle
    /\ alertActive
    /\ alertMuted' = ~alertMuted
    /\ UNCHANGED <<isRunning, isAnalyzing, nectarLevel, alertActive, threshold,
                   cameraError, lastAnalysis, analysisInterval, countdown, history,
                   requests, outcome, validLeft, acquiring, playing, srcObject,
                   leaked>>
    /\ scanFrom' = <<>>
    /\ AlertSoundLoop
    /\ UNCHANGED <<req, resp>>
    /\ EffectsAfter

(***************************************************************************)
(* The countdown timer effect: a one-second timeout armed while            *)
(* isRunning and countdown > 0.                                            *)
(***************************************************************************)
\* Variant: the timeout is armed whatever the countdown.
TimerArmedAnyCountdown == isRunning

\* The effect arms the timeout unless (!isRunning || countdown <= 0).
TimerArmed == isRunning /\ countdown > 0

Tick ==
    /\ Idle
    /\ TimerArmed
    /\ countdown' = countdown - 1
    /\ UNCHANGED <<isRunning, isAnalyzing, nectarLevel, alertActive, alertMuted,
                   threshold, cameraError, lastAnalysis, analysisInterval, history,
                   requests, outcome, validLeft, acquiring, playing, srcObject,
                   leaked>>
    /\ scanFrom' = <<>>
    /\ AlertSoundLoop
    /\ UNCHANGED <<req, resp>>
    /\ EffectsAfter

(***************************************************************************)
(* analyzeWithAI.  The function is a closure of the render whose effect    *)
(* called it: threshold and analysisInterval keep that render's values     *)
(* until the cycle settles.                                                *)
(***************************************************************************)
Closure == [threshold |-> threshold, analysisInterval |-> analysisInterval]

\* Variant: the endpoint's error field is ignored.
ErrorMessageGeneric(o) ==
    IF o.kind = "capture" THEN <<"Failed to capture frame">>
    ELSE IF o.kind = "http" THEN <<"API request failed">> ELSE o.error

\* The message of the Error the try block throws for outcome o.
ErrorMessage(o) ==
    IF o.kind = "capture" THEN <<"Failed to capture frame">>
    ELSE IF o.kind = "http"
         THEN (IF o.error # <<>> THEN o.error ELSE <<"API request failed">>)
         ELSE o.error

\* The catch block's result.
CatchResult(o) == Result(-1, "low", <<"Error: ">> \o ErrorMessage(o), FALSE)

\* response.ok is false, fetch rejected, or no frame was captured.
Throws(o) == ~(o.kind = "http" /\ o.status \in 200..299)

\* setLastAnalysis on either path.
RecordedAnalysis(o) == IF Throws(o) THEN CatchResult(o) ELSE o.result

\* The reading passes the test that guards setNectarLevel/setHistory/setAlertActive.
Accepts(o) == ~Throws(o) /\ Accepted(o.result)

LastN(s, n) == IF Len(s) <= n THEN s ELSE SubSeq(s, Len(s) - n + 1, Len(s))

HistoryEntry(r) == [level |-> r.level, confidence |-> r.confidence]

\* Variant: nothing is evicted.
PushHistoryNoEvict(prev, r) == Append(prev, HistoryEntry(r))

\* setHistory(prev => [...prev.slice(-19), entry])
PushHistory(prev, r) == Append(LastN(prev, KeepLast), HistoryEntry(r))

\* The threshold the reading is compared with.
AlertFor(r, closure) == r.level < closure.threshold

\* Variant: the finally block does not reset the countdown.
ResetCountdownOmitted(closure) == countdown

\* The value the finally block gives to countdown.
ResetCountdown(closure) == closure.analysisInterval

\* Variant: setIsAnalyzing(true) is omitted.
InFlightFlagOmitted == isAnalyzing

\* The value analyzeWithAI gives isAnalyzing before its first await.
InFlightFlag == TRUE

RemoveAt(s, i) == SubSeq(s, 1, i - 1) \o SubSeq(s, i + 1, Len(s))

\* Variant: a reading that is not accepted clears the alert.
AlertAfterMissCleared == FALSE

\* alertActive after a reading that is not accepted: setAlertActive is not called.
AlertAfterMiss == alertActive

\* The try/catch/finally of analyzeWithAI for outcome o, under closure c.
Settled(o, c) ==
    /\ lastAnalysis' = <<RecordedAnalysis(o)>>
    /\ nectarLevel' = IF Accepts(o) THEN <<o.result.level>> ELSE nectarLevel
    /\ history' = IF Accepts(o) THEN PushHistory(history, o.result) ELSE history
    /\ alertActive' = IF Accepts(o) THEN AlertFor(o.result, c) ELSE AlertAfterMiss
    /\ isAnalyzing' = FALSE
    /\ countdown' = ResetCountdown(c)
    /\ outcome' = o
    /\ validLeft' = IF Accepts(o) THEN validLeft - 1 ELSE validLeft

\* The trigger effect runs and calls analyzeWithAI; the frame is captured and
\* the request is sent, or captureFrame yields no image and the cycle settles
\* in the same event.
TriggerAnalysis ==
    /\ triggerDue
    /\ TriggerCond
    /\ ~isAnalyzing
    /\ \/ /\ isAnalyzing' = InFlightFlag
          /\ requests' = Append(requests, Closure)
          /\ UNCHANGED <<nectarLevel, alertActive, lastAnalysis, countdown,
                         history, outcome, validLeft>>
       \/ /\ Settled(CaptureFailed, Closure)
          /\ UNCHANGED requests
    /\ UNCHANGED <<isRunning, alertMuted, threshold, cameraError, analysisInterval,
                   acquiring, playing, srcObject, leaked>>
    /\ scanFrom' = <<>>
    /\ AlertSoundLoop
    /\ UNCHANGED <<req, resp>>
    /\ EffectsAfter

\* The awaited fetch of request i settles with outcome o.
Settle(i, o) ==
    /\ Idle
    /\ i \in 1..Len(requests)
    /\ Accepts(o) => validLeft > 0
    /\ Settled(o, requests[i])
    /\ requests' = RemoveAt(requests, i)
    /\ UNCHANGED <<isRunning, alertMuted, threshold, cameraError, analysisInterval,
                   acquiring, playing, srcObject, leaked>>
    /\ scanFrom' = <<>>
    /\ AlertSoundLoop
    /\ UNCHANGED <<req, resp>>
    /\ EffectsAfter

Outcomes == OkOutcomes(ValidResults \cup InvalidResults) \cup FailureOutcomes

\* The events of the component, with the outcomes in outs as what a fetch can settle with.
NextFor(outs) ==
    \/ StartCamera
    \/ GetUserMediaOk
    \/ GetUserMediaFail
    \/ PlayOk
    \/ PlayFail
    \/ StopCamera
    \/ ScanNow
    \/ \E sec \in IntervalChoices : SetAnalysisInterval(sec)
    \/ \E t \in Thresholds : SetThreshold(t)
    \/ ToggleMute
    \/ Tick
    \/ AlertTick
    \/ TriggerAnalysis
    \/ \E i \in 1..Len(requests), o \in outs : Settle(i, o)

Next == NextFor(Outcomes)

Spec == Init /\ [][Next]_vars

(***************************************************************************)
(* The endpoint handling one request, for every request and every answer   *)
(* of the vision service.                                                  *)
(***************************************************************************)
EndpointInit ==
    /\ ClientInit
    /\ req \in Requests
    /\ resp = NoResponse

Post ==
    /\ req # NoRequest
    /\ resp = NoResponse
    /\ resp' = POST(req)
    /\ UNCHANGED <<req, clientVars>>

EndpointSpec == EndpointInit /\ [][Post]_vars

(***************************************************************************)
(* A component that has already recorded KeepLast accepted readings        *)
(* (levels 1, 2, ...) in a session that was then stopped.                  *)
(***************************************************************************)
PriorReading(n) == Result(n, "high", <<"Feeder nearly empty">>, TRUE)

PriorHistory(n) == [i \in 1..n |-> HistoryEntry(PriorReading(i))]

InitHistory ==
    /\ isRunning = FALSE
    /\ isAnalyzing = FALSE
    /\ nectarLevel = <<KeepLast>>
    /\ alertActive = FALSE
    /\ alertMuted = FALSE
    /\ threshold = DefaultThreshold
    /\ cameraError = <<>>
    /\ lastAnalysis = <<PriorReading(KeepLast)>>
    /\ analysisInterval = DefaultInterval
    /\ countdown = 0
    /\ history = PriorHistory(KeepLast)
    /\ requests = <<>>
    /\ triggerDue = FALSE
    /\ outcome = Http(200, PriorReading(KeepLast), <<>>)
    /\ validLeft = MaxValid
    /\ acquiring = 0
    /\ playing = 0
    /\ srcObject = "stopped"
    /\ leaked = FALSE
    /\ scanFrom = <<>>
    /\ alertTimer = <<>>
    /\ cue = FALSE
    /\ EndpointIdle

SpecHistory == InitHistory /\ [][Next]_vars

(***************************************************************************)
(* The monitoring loop under the scheduling the browser gives it: an armed *)
(* timeout fires, a scheduled effect runs, and every fetch eventually      *)
(* settles.  The endpoint answers with any of the failures or with one     *)
(* accepted reading below the default threshold.                           *)
(***************************************************************************)
LoopOutcomes ==
    OkOutcomes({ Result(20, "high", <<"Feeder about one fifth full">>, TRUE) })
        \cup FailureOutcomes

LoopFairness ==
    /\ WF_vars(Tick)
    /\ WF_vars(TriggerAnalysis)
    /\ WF_vars(\E i \in 1..Len(requests), o \in LoopOutcomes : Settle(i, o))

LoopSpec == Init /\ [][NextFor(LoopOutcomes)]_vars /\ LoopFairness

(***************************************************************************)
(* A component whose user has chosen the longest interval before the first *)
(* Start, with the endpoint answering as in the monitoring loop above.     *)
(***************************************************************************)
MaxInterval == Intervals[Len(Intervals)]

InitMaxInterval ==
    /\ isRunning = FALSE
    /\ isAnalyzing = FALSE
    /\ nectarLevel = <<>>
    /\ alertActive = FALSE
    /\ alertMuted = FALSE
    /\ threshold = DefaultThreshold
    /\ cameraError = <<>>
    /\ lastAnalysis = <<>>
    /\ analysisInterval = MaxInterval
    /\ countdown = 0
    /\ history = <<>>
    /\ requests = <<>>
    /\ triggerDue = FALSE
    /\ outcome = NoOutcome
    /\ validLeft = MaxValid
    /\ acquiring = 0
    /\ playing = 0
    /\ srcObject = "none"
    /\ leaked = FALSE
    /\ scanFrom = <<>>
    /\ alertTimer = <<>>
    /\ cue = FALSE
    /\ EndpointIdle

SpecMaxInterval == InitMaxInterval /\ [][NextFor(LoopOutcomes)]_vars

(***************************************************************************)
(* Steps and readings, as the properties below speak of them.              *)
(***************************************************************************)
\* A fetch in flight settles, or the trigger effect's cycle ends at once
\* because no frame was captured.
CycleSettles ==
    \/ Len(requests') < Len(requests)
    \/ triggerDue /\ Len(requests') = Len(requests)

\* The delivered outcome is a 200 response with feeder_visible and level >= 0.
ValidReading(o) ==
    o.kind = "http" /\ o.status = 200 /\ o.result.feeder_visible /\ o.result.level >= 0

\* la is the synthetic failure result.
IsSyntheticFailure(la) ==
    /\ Len(la) = 1
    /\ la[1].level = -1
    /\ la[1].confidence = "low"
    /\ la[1].feeder_visible = FALSE

\* la is the reading that outcome o carries.
IsReadingOf(la, o) ==
    IF o.kind = "http" /\ o.status = 200 THEN la = <<o.result>> ELSE IsSyntheticFailure(la)

(***************************************************************************)
(* C1. At most one analysis request is in flight in every reachable state, *)
(* whatever the interleaving of ticks, scan-now, stop/start, configuration *)
(* changes and responses; isAnalyzing is set exactly while one is.         *)
(***************************************************************************)
C1_AtMostOneInFlight ==
    /\ Len(requests) <= 1
    /\ isAnalyzing <=> Len(requests) = 1

\* A request of an earlier session is still in flight after Stop and Start,
\* and the new session's countdown is about to reach 0.
C1_Witness ==
    /\ Len(requests) = 1
    /\ isRunning
    /\ isAnalyzing
    /\ countdown = 1

(***************************************************************************)
(* C2. A cycle that settles with an invalid reading (feeder_visible false, *)
(* level < 0, or a synthetic failure) leaves nectarLevel, alertActive and  *)
(* history as they were, and lastAnalysis becomes that reading.            *)
(***************************************************************************)
C2_InvalidReadingFrame ==
    [][ (CycleSettles /\ ~ValidReading(outcome'))
          => /\ nectarLevel' = nectarLevel
             /\ alertActive' = alertActive
             /\ history' = history
             /\ IsReadingOf(lastAnalysis', outcome') ]_vars

\* A visible-feeder reading with level -1 was recorded while an alert stays active.
C2_Witness ==
    /\ outcome.kind = "http" /\ outcome.status = 200
    /\ outcome.result.feeder_visible /\ outcome.result.level = -1
    /\ lastAnalysis = <<outcome.result>>
    /\ alertActive
    /\ nectarLevel = <<20>>
    /\ Len(history) = 1

(***************************************************************************)
(* C3. A cycle that settles with feeder_visible and level L >= 0 sets      *)
(* nectarLevel to L, appends one history entry with level L as the newest, *)
(* and sets alertActive to (L < threshold) for the threshold configured    *)
(* when the reading is applied.                                            *)
(***************************************************************************)
C3_ValidReadingApplied ==
    [][ (Len(requests') < Len(requests) /\ ValidReading(outcome'))
          => LET L == outcome'.result.level IN
             /\ nectarLevel' = <<L>>
             /\ Len(history') > 0
             /\ history'[Len(history')].level = L
             /\ alertActive' = (L < threshold') ]_vars

(***************************************************************************)
(* C4. A threshold change while a level is known recomputes alertActive as *)
(* (level < new threshold) in the state right after the change.            *)
(***************************************************************************)
C4_ThresholdRecomputesAlert ==
    [][ (threshold' # threshold /\ nectarLevel # <<>>)
          => alertActive' = (nectarLevel[1] < threshold') ]_vars

(***************************************************************************)
(* C5. When a cycle settles, countdown becomes the analysisInterval that   *)
(* is configured at that moment.                                           *)
(***************************************************************************)
C5_CountdownResetToCurrentInterval ==
    [][ CycleSettles => countdown' = analysisInterval' ]_vars

(***************************************************************************)
(* C6. Stop, from any reachable running state, yields isRunning = FALSE,   *)
(* alertActive = FALSE and countdown = 0.  A Stop step is one that ends    *)
(* the session or stops the tracks of the attached stream.                 *)
(***************************************************************************)
C6_StopResets ==
    [][ (isRunning /\ (~isRunning' \/ (srcObject = "live" /\ srcObject' = "stopped")))
          => (~isRunning' /\ ~alertActive' /\ countdown' = 0) ]_vars

\* Stopped while an analysis was in flight and a muted alert was showing.
C6_Witness ==
    /\ ~isRunning
    /\ isAnalyzing
    /\ countdown = 0
    /\ ~alertActive
    /\ alertMuted
    /\ nectarLevel = <<20>>
    /\ threshold = 25
    /\ srcObject = "stopped"

(***************************************************************************)
(* C7. The history never holds more than 20 entries, and every change of   *)
(* it appends one entry at the end: below 20 the old entries are all kept, *)
(* at 20 exactly the oldest is removed and the other 19 keep their order.  *)
(***************************************************************************)
C7_HistoryBoundedFifo ==
    /\ [](Len(history) <= 20)
    /\ [][ history' # history
             => IF Len(history) = 20
                THEN /\ Len(history') = 20
                     /\ SubSeq(history', 1, 19) = Tail(history)
                ELSE /\ Len(history') = Len(history) + 1
                     /\ SubSeq(history', 1, Len(history)) = history ]_vars

\* 21 readings were accepted: the first one (level 1) is gone, the second is now the oldest.
C7_Witness ==
    /\ Len(history) = 20
    /\ history[1].level = 2
    /\ history[19].level = 20
    /\ history[20].level = 30

(***************************************************************************)
(* C8. In a running session with no analysis in flight, Scan Now can be    *)
(* pressed and sets countdown to 0 whatever its value, which schedules the *)
(* trigger effect; the scheduled effect then starts exactly one analysis   *)
(* cycle (a request is sent, or the cycle ends at once for want of a       *)
(* frame) before any countdown tick.                                       *)
(***************************************************************************)
C8_OneCycleStarts ==
    \/ /\ Len(requests') = Len(requests) + 1
       /\ isAnalyzing'
    \/ /\ requests' = requests
       /\ outcome' = CaptureFailed
       /\ IsSyntheticFailure(lastAnalysis')

C8_ScanNowTriggers ==
    /\ []((isRunning /\ ~isAnalyzing /\ ~triggerDue) => ENABLED ScanNow)
    /\ [](scanFrom # <<>> => (countdown = 0 /\ triggerDue))
    /\ [][ triggerDue => (C8_OneCycleStarts /\ ~triggerDue') ]_vars

\* Scan Now was just pressed with 27 seconds left.
C8_Witness ==
    /\ scanFrom = <<27>>
    /\ countdown = 0
    /\ triggerDue
    /\ isRunning

(***************************************************************************)
(* C9. Every failed cycle (no frame, rejected fetch, non-200 response)     *)
(* leaves a well-formed lastAnalysis: level -1, confidence low,            *)
(* feeder_visible false, and a description containing the endpoint's error *)
(* message when the response carried one; no settled cycle leaves          *)
(* lastAnalysis unset.                                                     *)
(***************************************************************************)
Contains(d, m) == \E i \in 1..Len(d) : \E j \in i..Len(d) : SubSeq(d, i, j) = m

C9_FailuresResolve ==
    /\ outcome.kind # "none" => Len(lastAnalysis) = 1
    /\ (outcome.kind \in {"capture", "reject"} \/ (outcome.kind = "http" /\ outcome.status # 200))
         => /\ IsSyntheticFailure(lastAnalysis)
            /\ lastAnalysis[1].description # <<>>
            /\ (outcome.kind = "http" /\ outcome.error # <<>>)
                 => Contains(lastAnalysis[1].description, outcome.error)

\* The missing-credentials 500 was folded into a synthetic failure.
C9_Witness ==
    /\ outcome = Http(500, NoResult, <<"API key not configured">>)
    /\ lastAnalysis = <<Result(-1, "low", <<"Error: ", "API key not configured">>, FALSE)>>

(***************************************************************************)
(* C10. No failure aborts the loop: an analysis in flight eventually       *)
(* settles (isAnalyzing is false again and again); a settled cycle (failed *)
(* or not) leaves isAnalyzing false and the countdown re-armed above 0     *)
(* with no effect scheduled; a request is sent only by the trigger effect  *)
(* at countdown 0; and the session does not stay running for ever without  *)
(* the trigger effect being scheduled again (again and again, the session  *)
(* is stopped or the next cycle is due).                                   *)
(***************************************************************************)
C10_LoopContinues ==
    /\ []<>~isAnalyzing
    /\ [][ CycleSettles => (~isAnalyzing' /\ countdown' > 0 /\ ~triggerDue') ]_vars
    /\ [][ Len(requests') > Len(requests) => (triggerDue /\ countdown = 0) ]_vars
    /\ []<>(~isRunning \/ triggerDue)

\* A cycle failed, the countdown ran out again and the next cycle is due.
C10_Witness ==
    /\ triggerDue
    /\ isRunning
    /\ outcome.kind = "reject"
    /\ IsSyntheticFailure(lastAnalysis)

(***************************************************************************)
(* C11. In the state right after Stop, no stream acquired by an earlier    *)
(* Start is live: neither the stream attached to the video element nor a   *)
(* stream that a later acquisition replaced there.                         *)
(***************************************************************************)
C11_StopReleasesEveryStream ==
    [][ (isRunning /\ ~isRunning') => (srcObject' # "live" /\ ~leaked') ]_vars

(***************************************************************************)
(* C12. No camera stream is live in a state where the session is not       *)
(* running and no Start is in progress (no startCamera call awaits         *)
(* getUserMedia or play).                                                  *)
(***************************************************************************)
C12_NoLiveStreamWhenIdle ==
    (~isRunning /\ acquiring = 0 /\ playing = 0) => (srcObject # "live" /\ ~leaked)

(***************************************************************************)
(* C13. When a pending Start fails (getUserMedia rejects, or play rejects  *)
(* after it), a session that is not running stays not running,            *)
(* cameraError is set, the countdown, the in-flight flag and the requests  *)
(* are untouched, no cycle is scheduled and no new acquisition is begun;   *)
(* an acquisition begins only by a press of Start; cameraError goes back   *)
(* to null only in the step of a Start that succeeds, and every step that  *)
(* makes the session running clears it.                                    *)
(***************************************************************************)
\* A pending startCamera call ends with the session running, the error
\* cleared and the first countdown set.
StartSucceeds ==
    playing' < playing /\ isRunning' /\ cameraError' = <<>> /\ countdown' = StartDelay

\* A pending startCamera call ends otherwise.
AcquisitionFails ==
    acquiring' + playing' < acquiring + playing /\ ~StartSucceeds

C13_AcquisitionFailure ==
    /\ [][ AcquisitionFails
             => /\ ~isRunning => ~isRunning'
                /\ cameraError' # <<>>
                /\ countdown' = countdown
                /\ isAnalyzing' = isAnalyzing
                /\ requests' = requests
                /\ ~triggerDue'
                /\ acquiring' <= acquiring ]_vars
    /\ [][ acquiring' > acquiring => StartCamera ]_vars
    /\ [][ (cameraError # <<>> /\ cameraError' = <<>>) => StartSucceeds ]_vars
    /\ [][ (~isRunning /\ isRunning') => cameraError' = <<>> ]_vars

\* getUserMedia was rejected: no stream was ever attached, the error shows,
\* and nothing is scheduled.
C13_Witness ==
    /\ cameraError = CameraDenied
    /\ srcObject = "none"
    /\ ~isRunning
    /\ acquiring = 0 /\ playing = 0
    /\ countdown = 0
    /\ requests = <<>>
    /\ ~triggerDue

(***************************************************************************)
(* C16. A change of analysisInterval leaves the countdown and every other  *)
(* state field as it was and schedules nothing; the value then configured  *)
(* is what the countdown is reset to when the next cycle settles.          *)
(***************************************************************************)
C16_IntervalChange ==
    [][ /\ analysisInterval' # analysisInterval
             => /\ UNCHANGED <<isRunning, isAnalyzing, nectarLevel, alertActive,
                               alertMuted, threshold, cameraError, lastAnalysis,
                               countdown, history, requests, srcObject>>
                /\ ~triggerDue'
        /\ CycleSettles => countdown' = analysisInterval ]_vars

(***************************************************************************)
(* C17. In every reachable state where the session is not running,         *)
(* alertActive is false and countdown is 0.                                *)
(***************************************************************************)
C17_StoppedIsIdle == ~isRunning => (~alertActive /\ countdown = 0)

(***************************************************************************)
(* C18. No analysis cycle starts while the session is not running: the     *)
(* trigger effect is never scheduled and cannot run in such a state, and   *)
(* every step that runs it or sends a request starts and ends in a running *)
(* session.                                                                *)
(***************************************************************************)
C18_NoCycleWhileStopped ==
    /\ [](triggerDue => isRunning)
    /\ [](~isRunning => ~ENABLED TriggerAnalysis)
    /\ [][ (triggerDue \/ Len(requests') > Len(requests))
             => (isRunning /\ isRunning') ]_vars

\* A session stopped before its first cycle: countdown 0, nothing in flight,
\* and no cycle is due.
C18_Witness ==
    /\ ~isRunning
    /\ srcObject = "stopped"
    /\ countdown = 0
    /\ ~isAnalyzing
    /\ requests = <<>>
    /\ lastAnalysis = <<>>
    /\ ~triggerDue

(***************************************************************************)
(* C19. In every reachable state with isAnalyzing true, countdown is 0 and *)
(* no countdown timeout is armed.                                          *)
(***************************************************************************)
C19_NoRearmInFlight == isAnalyzing => (countdown = 0 /\ ~ENABLED Tick)

(***************************************************************************)
(* C20. A countdown tick (a step that changes countdown and is not a       *)
(* Start, a Stop, a Scan Now or the end of a cycle) is taken only with     *)
(* isRunning true and countdown > 0 and decrements countdown by exactly 1; *)
(* no tick is possible while the session is stopped; countdown stays       *)
(* within 0..120.                                                          *)
(***************************************************************************)
TickStep ==
    /\ countdown' # countdown
    /\ isRunning' = isRunning
    /\ playing' = playing
    /\ requests' = requests
    /\ ~triggerDue
    /\ scanFrom' = <<>>

C20_TickDecrements ==
    /\ [](countdown \in 0..120)
    /\ [](ENABLED Tick => (isRunning /\ countdown > 0))
    /\ [][ TickStep => (isRunning /\ countdown > 0 /\ countdown' = countdown - 1) ]_vars

\* A cycle settled under the 120 s interval and the countdown has ticked once.
C20_Witness ==
    /\ isRunning
    /\ countdown = 119
    /\ ~isAnalyzing
    /\ Len(lastAnalysis) = 1

(***************************************************************************)
(* C14. The alert sound is played in the step in which                     *)
(* (alertActive and not alertMuted) becomes true, and by every tick of the *)
(* 2-second interval, which can fire whenever that condition holds; the    *)
(* sound is played by no other step and in no state where alertActive is   *)
(* false or alertMuted is true; and the interval is set exactly in the     *)
(* states where the condition holds.                                       *)
(***************************************************************************)
C14_AlertCues ==
    /\ [](cue => AlertCond)
    /\ [](alertTimer # <<>> <=> AlertCond)
    /\ []((AlertCond /\ Idle) => ENABLED AlertTick)
    /\ [][ (~AlertCond /\ AlertCond') => cue' ]_vars
    /\ [][ AlertTick => cue' ]_vars
    /\ [][ cue' => ((~AlertCond /\ AlertCond') \/ AlertTick) ]_vars

\* An alert is showing unmuted, its interval is set, and the sound was just played.
C14_Witness ==
    /\ cue
    /\ alertActive
    /\ ~alertMuted
    /\ alertTimer = <<FALSE>>
    /\ nectarLevel = <<20>>
    /\ isRunning

(***************************************************************************)
(* C15. Every answer of the endpoint is a non-200 response whose body has  *)
(* an error message, or a 200 response whose body is an analysis result    *)
(* and has no error member: 400 when the request holds no image, 500 when  *)
(* the credential is missing, the status of the vision service when it     *)
(* reports a failure, 500 when a call inside the handler throws; and a     *)
(* model reply in which no object can be decoded gives 200 with level -1,  *)
(* confidence low and feeder_visible false.                                *)
(***************************************************************************)
HasError(b) == b.error # <<>>

IsAnalysisResult(b) ==
    /\ b.level # <<>>
    /\ b.confidence # <<>> /\ b.confidence[1] \in {"high", "medium", "low"}
    /\ b.description # <<>>
    /\ b.feeder_visible # <<>>

\* Some stretch of the text is an object that JSON.parse accepts.
Decodable(t) ==
    \E i \in 1..Len(t) : \E j \in i..Len(t) : JsonParse(SubSeq(t, i, j)) # <<>>

\* The request reaches the call of the vision service.
CallsUpstream(r) == r.body = "image" /\ r.apiKey

C15_EndpointAnswers ==
    resp # NoResponse =>
       /\ \/ resp.status # 200 /\ HasError(resp.body)
          \/ resp.status = 200 /\ IsAnalysisResult(resp.body)
       /\ ~(resp.status = 200 /\ HasError(resp.body))
       /\ req.body = "noimage" => resp.status = 400
       /\ (req.body = "image" /\ ~req.apiKey) => resp.status = 500
       /\ (CallsUpstream(req) /\ req.upstream.json /\ ~Ok(req.upstream.status))
            => resp.status = req.upstream.status
       /\ (req.body = "malformed"
             \/ (CallsUpstream(req) /\ (req.upstream.kind = "reject" \/ ~req.upstream.json)))
            => resp.status = 500
       /\ (CallsUpstream(req) /\ req.upstream.json /\ Ok(req.upstream.status)
             /\ ~Decodable(req.upstream.text))
            => /\ resp.status = 200
               /\ resp.body.level = <<-1>>
               /\ resp.body.confidence = <<"low">>
               /\ resp.body.feeder_visible = <<FALSE>>

(***************************************************************************)
(* C21. alertActive changes only in a step that settles a cycle with a     *)
(* valid reading, that changes the threshold, or that stops the session:   *)
(* ticks, Scan Now, interval changes, mute toggles, the steps of Start and *)
(* cycles that settle with a failure or an invalid reading leave it as it  *)
(* was.                                                                    *)
(***************************************************************************)
C21_AlertActiveOwners ==
    [][ alertActive' # alertActive
          => \/ CycleSettles /\ ValidReading(outcome')
             \/ threshold' # threshold
             \/ isRunning /\ ~isRunning' ]_vars

\* An alert raised under threshold 25 is still showing after the threshold
\* was lowered below the level, a Scan Now and a failed cycle.
C21_Witness ==
    /\ alertActive
    /\ nectarLevel = <<20>>
    /\ threshold = 15
    /\ isRunning
    /\ outcome.kind = "reject"
    /\ countdown = analysisInterval

(***************************************************************************)
(* C22. alertMuted changes only in a step of the mute button, which        *)
(* changes nothing else; the start and the end of an alert, Stop, Start,   *)
(* readings and threshold changes leave it as it was, and an alert that    *)
(* starts while alertMuted is true plays no sound and sets no interval.    *)
(***************************************************************************)
C22_MutePersists ==
    /\ [][ alertMuted' # alertMuted => ToggleMute ]_vars
    /\ [][ (alertMuted /\ alertActive' # alertActive)
             => (alertMuted' /\ ~cue' /\ alertTimer' = <<>>) ]_vars
    /\ [](alertMuted => (~cue /\ alertTimer = <<>>))

\* Muted during the first alert, which Stop ended; the next reading raised
\* the alert again and it is silent.
C22_Witness ==
    /\ alertMuted
    /\ alertActive
    /\ Len(history) = 2
    /\ ValidReading(outcome)
    /\ countdown = analysisInterval
    /\ ~cue
    /\ alertTimer = <<>>

(***************************************************************************)
(* C23. Every 200 response of the endpoint has a level that is -1 or in    *)
(* 0..100, a confidence among high, medium and low, and a boolean          *)
(* feeder_visible; so a 200 body that the client accepts as a reading      *)
(* (feeder_visible and level >= 0), and whose level it then stores and     *)
(* appends to the history, has a level in 0..100.                          *)
(***************************************************************************)
\* result.feeder_visible && result.level >= 0, on a response body.
BodyAccepted(b) == b.feeder_visible = <<TRUE>> /\ b.level # <<>> /\ b.level[1] >= 0

C23_ValidatedBodies ==
    resp.status = 200 =>
       /\ resp.body.level # <<>>
       /\ resp.body.level[1] \in {-1} \cup 0..100
       /\ resp.body.confidence # <<>>
       /\ resp.body.confidence[1] \in {"high", "medium", "low"}
       /\ resp.body.feeder_visible # <<>>
       /\ resp.body.feeder_visible[1] \in BOOLEAN
       /\ BodyAccepted(resp.body) => resp.body.level[1] \in 0..100

(***************************************************************************)
(* C24. For a reply of the vision service that reaches extraction, the     *)
(* body of the response is the first well-formed object of the text (the   *)
(* one that starts leftmost, and ends first), whatever follows it; it is   *)
(* the synthetic failure result only when the text holds no well-formed    *)
(* object.                                                                 *)
(***************************************************************************)
\* Stretches of the text that are well-formed objects, as <<start, end>>.
ObjectsIn(t) ==
    { <<i, j>> \in (1..Len(t)) \X (1..Len(t)) : i <= j /\ JsonParse(SubSeq(t, i, j)) # <<>> }

\* The first of them.
FirstObjectAt(t) ==
    CHOOSE p \in ObjectsIn(t) :
        \A q \in ObjectsIn(t) : p[1] < q[1] \/ (p[1] = q[1] /\ p[2] <= q[2])

\* The request reaches the inner try block with text t.
Extracts(r) ==
    CallsUpstream(r) /\ r.upstream.kind = "response" /\ r.upstream.json /\ Ok(r.upstream.status)

C24_FirstObjectDecoded ==
    (resp # NoResponse /\ Extracts(req)) =>
        LET t == req.upstream.text IN
        /\ resp.status = 200
        /\ IF ObjectsIn(t) = {}
           THEN resp.body = Fallback
           ELSE resp.body = JsonParse(SubSeq(t, FirstObjectAt(t)[1], FirstObjectAt(t)[2]))[1]

(***************************************************************************)
(* C25. A step that makes the session running sets countdown to 5,         *)
(* whatever analysisInterval is.  From there, as long as the session runs, *)
(* countdown moves only by a tick (down by 1), by Scan Now (to 0), or by   *)
(* the reset at the end of a cycle, which comes only after the countdown   *)
(* reached 0; and when a tick brings it to 0, the trigger effect is        *)
(* scheduled.  So the first cycle of a session starts after exactly 5      *)
(* ticks unless Scan Now or Stop intervenes, and analysisInterval is used  *)
(* only by later resets.                                                   *)
(***************************************************************************)
C25_FirstCycleAfterStartDelay ==
    [][ /\ (~isRunning /\ isRunning') => countdown' = StartDelay
        /\ (isRunning /\ isRunning' /\ countdown' # countdown)
              => \/ countdown' = countdown - 1
                 \/ countdown' = 0
                 \/ CycleSettles /\ countdown = 0
        /\ (isRunning /\ isRunning' /\ countdown > 0 /\ countdown' = 0)
              => triggerDue' ]_vars

====
